---- MODULE Spec2Model ----
(***************************************************************************)
(* yt-CommunityPostReBuilder.                                              *)
(* PostArchiver._update_post_order (src/src/archiver.py) merges a freshly  *)
(* observed display order with the persisted post_order.json and rewrites  *)
(* the file: the post list handed to the reconciler, the fresh order, the  *)
(* order file on disk and the outcome of each call (Spec, SpecFallback).   *)
(* run_archiver (src/src/main.py) and archive_channel drive the external   *)
(* archiver with retries, load the post.json records, restore member-only  *)
(* flags and update the order table (SpecRun, SpecRunFair, SpecMembers,    *)
(* SpecLoad).  DataProcessor.filter_by_date_range is checked as a function *)
(* of its arguments (SpecFilter).                                          *)
(***************************************************************************)
EXTENDS Integers, Sequences, FiniteSets, TLC

\* ------------------------------------------------------------------ bounds
MaxPosts == 3      \* longest post list handed to the reconciler
MaxFresh == 2      \* longest freshly observed order
MaxEntries == 2    \* most entries of a previous order table on disk
MaxOrder == 1      \* largest 'order' value of such a previous table
MaxTime == 1       \* archive instants are 0..MaxTime (seconds after T0)
MaxRuns == 2       \* calls of _update_post_order in one behaviour
MaxCandidates == 3 \* longest post list given to filter_by_date_range
MaxDate == 2       \* estimated dates and range bounds are 0..MaxDate (days)
MaxCount == 2028   \* largest number written in a relative-date phrase
MaxShown == 3      \* longest post list given to the read-only queries

\* --------------------------------------------------------------- universes
\* post ids as they appear in urls, fresh orders and order tables
PostIds == {"A", "B", "C"}

\* the url field of a post record: absent/empty, or .../post/<id>
Urls == {""} \cup {"https://www.youtube.com/post/" \o id : id \in {"A", "B", "C"}}

\* CommunityPost.from_json, line 41: last path segment of the url, "" without url
PostIdOfUrl(url) ==
    IF url = "" THEN ""
    ELSE CHOOSE id \in PostIds : url = "https://www.youtube.com/post/" \o id

\* when_archived strings by shape: "" | not ISO-8601 | "<t>+00:00" | "<t>+08:00"
\* (t is the instant the string denotes, in seconds after T0)
EmptyStamp == [form |-> "empty", t |-> 0]
GarbageStamp == [form |-> "garbage", t |-> 0]
UtcStamp(t) == [form |-> "utc", t |-> t]
OffsetStamp(t) == [form |-> "offset", t |-> t]
Stamps == {EmptyStamp, GarbageStamp}
          \cup {UtcStamp(t) : t \in 0..MaxTime}
          \cup {OffsetStamp(t) : t \in 0..MaxTime}

\* a loaded CommunityPost, reduced to the fields the reconciler reads
Post(url, stamp) == [post_id |-> PostIdOfUrl(url), when_archived |-> stamp]

RECURSIVE SeqsUpTo(_, _)
SeqsUpTo(S, n) ==
    IF n = 0 THEN {<<>>}
    ELSE LET shorter == SeqsUpTo(S, n - 1)
         IN shorter \cup {Append(s, x) : s \in {q \in shorter : Len(q) = n - 1}, x \in S}

IsInjective(s) == \A i, j \in 1..Len(s) : s[i] = s[j] => i = j

Range(s) == {s[i] : i \in 1..Len(s)}

\* ------------------------------------------------- _update_post_order steps
\* the python dict {} and a dict built from key/value pairs
EmptyDict == [id \in {} |-> 0]

\* dict built by successive assignment d[ids[i]] = vals[i]: the last one wins
DictOfPairs(ids, vals) ==
    [id \in Range(ids) |->
        vals[CHOOSE i \in 1..Len(ids) :
                /\ ids[i] = id
                /\ \A j \in (i + 1)..Len(ids) : ids[j] # id]]

\* list.sort(key=...): the stable ascending permutation of the indices of keys
StableSortPerm(keys) ==
    [k \in 1..Len(keys) |->
        CHOOSE i \in 1..Len(keys) :
            Cardinality({j \in 1..Len(keys) :
                            \/ keys[j] < keys[i]
                            \/ (keys[j] = keys[i] /\ j < i)}) = k - 1]

\* the order file on disk: absent, not parsable as JSON, or a parsed document
\* whose "posts" list holds entries (dicts with fields post_id and order)
AbsentFile == [kind |-> "absent", posts |-> <<>>]
UnparsableFile == [kind |-> "unparsable", posts |-> <<>>]
TableFile(entries) == [kind |-> "table", posts |-> entries]
Entry(id, ord) == [post_id |-> id, order |-> ord]

\* lines 321-329: the previous table as a dict; item["post_id"] / item["order"]
\* raise KeyError for an entry lacking the field, which the except clause
\* (JSONDecodeError, IOError) does not catch
LoadExistingRaises(file) ==
    /\ file.kind = "table"
    /\ \E i \in 1..Len(file.posts) : {"post_id", "order"} \ DOMAIN file.posts[i] # {}

LoadExistingOrder(file) ==
    IF file.kind = "table"
    THEN DictOfPairs([i \in 1..Len(file.posts) |-> file.posts[i].post_id],
                     [i \in 1..Len(file.posts) |-> file.posts[i].order])
    ELSE EmptyDict

\* a fresh order as passed by archive_channel: None or a list of ids
NoFresh == [is_none |-> TRUE, ids |-> <<>>]
Fresh(ids) == [is_none |-> FALSE, ids |-> ids]

\* line 332, "if pre_fetched_order:" - None and [] are both falsy
HasFresh(fresh) == ~fresh.is_none /\ Len(fresh.ids) > 0

\* variant: ranks counted from the end of the fresh order
NewOrderFromFreshReversed(ids) ==
    DictOfPairs(ids, [i \in 1..Len(ids) |-> Len(ids) - i])

\* lines 333-335: new_order[post_id] = idx over enumerate(pre_fetched_order)
NewOrderFromFresh(ids) ==
    DictOfPairs(ids, [i \in 1..Len(ids) |-> i - 1])

\* lines 344-346: fromisoformat(when_archived.replace("+00:00","").replace("Z",""))
\* a "+00:00" string parses to a naive datetime, another offset to an aware one
ParseArchived(stamp) ==
    CASE stamp.form = "utc" -> [ok |-> TRUE, aware |-> FALSE, t |-> stamp.t]
      [] stamp.form = "offset" -> [ok |-> TRUE, aware |-> TRUE, t |-> stamp.t]
      [] OTHER -> [ok |-> FALSE, aware |-> FALSE, t |-> 0]

\* lines 340-349: the posts with a non-empty, parsable when_archived
HasUsableStamp(post) ==
    /\ post.when_archived.form # "empty"
    /\ ParseArchived(post.when_archived).ok

PostsWithTime(posts) == SelectSeq(posts, HasUsableStamp)

\* line 352: comparing a naive with an aware datetime raises TypeError
SortByTimeRaises(posts) ==
    \E i, j \in 1..Len(PostsWithTime(posts)) :
        /\ ~ParseArchived(PostsWithTime(posts)[i].when_archived).aware
        /\ ParseArchived(PostsWithTime(posts)[j].when_archived).aware

\* lines 352-357: sort by archive time, new_order[post.post_id] = idx
NewOrderFromTime(posts) ==
    LET pwt == PostsWithTime(posts)
        perm == StableSortPerm([i \in 1..Len(pwt) |-> ParseArchived(pwt[i].when_archived).t])
    IN DictOfPairs([k \in 1..Len(pwt) |-> pwt[perm[k]].post_id],
                   [k \in 1..Len(pwt) |-> k - 1])

\* lines 332-357
NewOrder(posts, fresh) ==
    IF HasFresh(fresh) THEN NewOrderFromFresh(fresh.ids) ELSE NewOrderFromTime(posts)

\* variant: the previous table is consulted before the new order
MergeEntryPrefersExisting(post, new_order, existing_order) ==
    IF post.post_id \in DOMAIN existing_order
    THEN <<Entry(post.post_id, existing_order[post.post_id])>>
    ELSE IF post.post_id \in DOMAIN new_order
         THEN <<Entry(post.post_id, new_order[post.post_id])>>
         ELSE <<>>

\* variant: a post found in neither source is appended with rank 0
MergeEntryKeepsUnranked(post, new_order, existing_order) ==
    IF post.post_id \in DOMAIN new_order
    THEN <<Entry(post.post_id, new_order[post.post_id])>>
    ELSE IF post.post_id \in DOMAIN existing_order
         THEN <<Entry(post.post_id, existing_order[post.post_id])>>
         ELSE <<Entry(post.post_id, 0)>>

\* lines 362-373: one entry per post found in new_order, else in existing_order
MergeEntry(post, new_order, existing_order) ==
    IF post.post_id \in DOMAIN new_order
    THEN <<Entry(post.post_id, new_order[post.post_id])>>
    ELSE IF post.post_id \in DOMAIN existing_order
         THEN <<Entry(post.post_id, existing_order[post.post_id])>>
         ELSE <<>>

RECURSIVE MergeOrder(_, _, _)
MergeOrder(posts, new_order, existing_order) ==
    IF posts = <<>> THEN <<>>
    ELSE MergeEntry(Head(posts), new_order, existing_order)
         \o MergeOrder(Tail(posts), new_order, existing_order)

\* variant: the sort is skipped, entries stay in post-list order
SortByOrderSkipped(final_order) == final_order

\* line 376: final_order.sort(key=lambda x: x["order"])
SortByOrder(final_order) ==
    LET perm == StableSortPerm([i \in 1..Len(final_order) |-> final_order[i].order])
    IN [k \in 1..Len(final_order) |-> final_order[perm[k]]]

\* variant: the provisional ranks are written as they are
RenumberSkipped(final_order) == final_order

\* lines 377-378: item["order"] = idx
Renumber(final_order) ==
    [k \in 1..Len(final_order) |-> Entry(final_order[k].post_id, k - 1)]

\* lines 359-378
FinalOrder(posts, fresh, file) ==
    Renumber(SortByOrder(MergeOrder(posts, NewOrder(posts, fresh), LoadExistingOrder(file))))

\* the exception a call ends with, "none" when it returns normally
\* (lines 327, 352 and 381 in the order the code reaches them)
RaisedBy(posts, fresh, file, dir_exists) ==
    CASE LoadExistingRaises(file) -> "KeyError"
      [] ~LoadExistingRaises(file) /\ ~HasFresh(fresh) /\ SortByTimeRaises(posts) -> "TypeError"
      [] ~LoadExistingRaises(file) /\ ~(~HasFresh(fresh) /\ SortByTimeRaises(posts))
            /\ ~dir_exists -> "FileNotFoundError"
      [] OTHER -> "none"

\* ------------------------------------------------------------- the inputs
\* post lists as load_archived_posts returns them: one post per record found,
\* in directory-iteration order; two records may carry the same url, or none
PostListsOver(urls, stamps) ==
    SeqsUpTo({Post(u, st) : u \in urls, st \in stamps}, MaxPosts)

\* fresh orders as _fetch_post_order_from_page returns them (lines 164-166:
\* non-empty ids, each appended once)
FreshLists ==
    {ids \in SeqsUpTo(PostIds, MaxFresh) : Len(ids) > 0 /\ IsInjective(ids)}

\* previous tables: entries over distinct ids, listed by ascending distinct order
PrevTables ==
    {es \in SeqsUpTo({Entry(id, o) : id \in PostIds, o \in 0..MaxOrder}, MaxEntries) :
        \A i, j \in 1..Len(es) :
            i < j => es[i].post_id # es[j].post_id /\ es[i].order < es[j].order}

\* the previous table {A:0, C:5} of the reconciler example
ExampleTable == <<Entry("A", 0), Entry("C", 5)>>

\* a table with an entry that lacks its "order" field
PartialTable == <<[post_id |-> "A"]>>

OrderFiles ==
    {AbsentFile, UnparsableFile}
    \cup {TableFile(es) : es \in PrevTables \cup {ExampleTable, PartialTable}}

\* ------------------------------------------------------------ state machine
VARIABLES
    posts,               \* the list load_archived_posts returned
    pre_fetched_order,   \* the fresh order of this archive run
    output_dir_exists,   \* whether self.output_dir exists
    order_file,          \* post_order.json
    existing_file,       \* post_order.json as the last call found it
    raised,              \* exception of the last call, "none" if it returned
    runs,                \* number of calls so far
    disk,                \* the post.json found in each directory of Paths
    readonly,            \* directories whose post.json could not be written in the last pass
    channel,             \* directories the external archiver may write a record to
    tool_outcomes,       \* the ways a process of the external archiver can end
    config,              \* command line of the run: credentials, include_members, ...
    pc,                  \* position of run_archiver / archive_channel
    attempts,            \* processes started by the current _run_archiver call
    existing_member_ids, \* result of _load_member_post_ids of this run
    loaded,              \* posts as load_archived_posts returned them
    returned,            \* posts as the run handed them on
    skipped,             \* record files the loader warned about
    warned,              \* post ids _restore_member_status warned about
    member_seen,         \* directories whose record was member-only when a run began
    candidates,          \* post list given to filter_by_date_range
    start_date,          \* its start_date argument
    end_date,            \* its end_date argument
    filtered,            \* the list it returned
    phrase,              \* relative_date text given to parse_relative_date
    view                 \* the last read-only query on a post list and its result

orderVars == <<posts, pre_fetched_order, output_dir_exists, order_file, existing_file, raised, runs>>

runVars == <<disk, readonly, channel, tool_outcomes, config, pc, attempts, existing_member_ids,
             loaded, returned, skipped, warned, member_seen>>

filterVars == <<candidates, start_date, end_date, filtered>>

viewVars == <<phrase, view>>

vars == <<orderVars, runVars, filterVars, viewVars>>

\* ------------------------------------------------- the archive directory
\* directories under the output root that may hold a post.json, in the order
\* rglob("post.json") yields them
PathOrder == <<"A", "B", "old/B">>
Paths == Range(PathOrder)

\* the post a directory's record belongs to (last segment of its url)
IdAt(path) == IF path = "A" THEN "A" ELSE "B"

\* a post.json by what reading it does: no such file | a JSON object with its
\* is_members | not JSON (also empty or truncated) | open() fails with OSError |
\* truncated inside a multi-byte character | valid JSON that is not an object
NoRecord == [kind |-> "absent", is_members |-> FALSE]
Record(m) == [kind |-> "record", is_members |-> m]
MalformedRecord == [kind |-> "malformed", is_members |-> FALSE]
UnreadableRecord == [kind |-> "unreadable", is_members |-> FALSE]
CutRecord == [kind |-> "cut", is_members |-> FALSE]
NonObjectRecord == [kind |-> "nonobject", is_members |-> FALSE]

EmptyDisk == [p \in Paths |-> NoRecord]

\* _run_archiver(url, max_posts) is always called with the default max_retries
max_retries == 2

\* no _run_archiver call yet in this run
NoAttempts == [call |-> "none", outcomes |-> <<>>]

\* the command line options run_archiver branches on
Configs ==
    [credentials : BOOLEAN, include_members : BOOLEAN, fetch_channel_info : BOOLEAN]

\* an optional datetime argument or attribute: None, or the instant t
NoDate == [has |-> FALSE, t |-> 0]
Date(t) == [has |-> TRUE, t |-> t]

\* the variables of run_archiver while only the reconciler is exercised
RunIdle ==
    /\ disk = EmptyDisk
    /\ readonly = {}
    /\ channel = {}
    /\ tool_outcomes = {}
    /\ config = [credentials |-> FALSE, include_members |-> FALSE, fetch_channel_info |-> FALSE]
    /\ pc = "idle"
    /\ attempts = NoAttempts
    /\ existing_member_ids = {}
    /\ loaded = <<>>
    /\ returned = <<>>
    /\ skipped = {}
    /\ warned = {}
    /\ member_seen = {}

\* filter_by_date_range not called yet
NotFiltered == [called |-> FALSE, posts |-> <<>>]

\* the variables of filter_by_date_range while it is not exercised
FilterIdle ==
    /\ candidates = <<>>
    /\ start_date = NoDate
    /\ end_date = NoDate
    /\ filtered = NotFiltered

\* no phrase parsed, no query made
NoPhrase == [count |-> -1, words |-> <<>>]
NoView == [op |-> "none"]

ViewIdle == phrase = NoPhrase /\ view = NoView

AllFresh == {NoFresh, Fresh(<<>>)} \cup {Fresh(ids) : ids \in FreshLists}

\* post lists that differ in their ids (with duplicates and records without
\* url), all archived at the same instant; any fresh order, also none
InitByOrder ==
    /\ posts \in PostListsOver(Urls, {UtcStamp(0)})
    /\ pre_fetched_order \in AllFresh
    /\ output_dir_exists = TRUE
    /\ order_file \in OrderFiles

\* post lists that differ in their when_archived; no fresh order (None, or []
\* after a failed fetch), so that the fallback of lines 336-357 runs
InitByTime ==
    /\ posts \in PostListsOver(Urls \ {"", "https://www.youtube.com/post/C"}, Stamps)
    /\ pre_fetched_order \in {NoFresh, Fresh(<<>>)}
    /\ output_dir_exists = TRUE
    /\ order_file \in OrderFiles

\* nothing was ever archived: no output directory, hence no post and no file
InitNoDir ==
    /\ posts = <<>>
    /\ pre_fetched_order \in AllFresh
    /\ output_dir_exists = FALSE
    /\ order_file = AbsentFile

NoCallYet ==
    /\ existing_file = AbsentFile
    /\ raised = "none"
    /\ runs = 0
    /\ RunIdle
    /\ FilterIdle
    /\ ViewIdle

Init == (InitByOrder \/ InitNoDir) /\ NoCallYet

InitFallback == InitByTime /\ NoCallYet

\* PostArchiver._update_post_order(posts, pre_fetched_order), lines 311-385:
\* an exception leaves the file as it was, a normal return rewrites it wholesale
UpdatePostOrder ==
    /\ runs < MaxRuns
    /\ runs' = runs + 1
    /\ existing_file' = order_file
    /\ raised' = RaisedBy(posts, pre_fetched_order, order_file, output_dir_exists)
    /\ order_file' = IF raised' = "none"
                     THEN TableFile(FinalOrder(posts, pre_fetched_order, order_file))
                     ELSE order_file
    /\ UNCHANGED <<posts, pre_fetched_order, output_dir_exists>>
    /\ UNCHANGED <<runVars, filterVars, viewVars>>

Next == UpdatePostOrder

Spec == Init /\ [][Next]_vars

\* the same reconciler on post lists with varied archive timestamps
SpecFallback == InitFallback /\ [][Next]_vars

\* the table the last call wrote, and what that call was given
Called == runs > 0
Returned == Called /\ raised = "none"
written == order_file.posts
existing_order == LoadExistingOrder(existing_file)
CurrentIds == {posts[i].post_id : i \in 1..Len(posts)}
FreshIds == IF HasFresh(pre_fetched_order) THEN Range(pre_fetched_order.ids) ELSE {}

\* positions (0-based ranks) at which id is listed in the written table
RanksOf(id) == {written[k].order : k \in {i \in 1..Len(written) : written[i].post_id = id}}

\* every entry of id precedes every entry of other in the written table
RanksBefore(id, other) ==
    /\ RanksOf(id) # {}
    /\ RanksOf(other) # {}
    /\ \A r \in RanksOf(id), q \in RanksOf(other) : r < q

\* rank of the entry that posts[i] contributed to the written table: entries are
\* appended in post-list order (lines 363-373) and sorted stably (line 376)
HasEntry(i) ==
    MergeEntry(posts[i], NewOrder(posts, pre_fetched_order), existing_order) # <<>>

RankOfPost(i) ==
    LET merged == MergeOrder(posts, NewOrder(posts, pre_fetched_order), existing_order)
        perm == StableSortPerm([k \in 1..Len(merged) |-> merged[k].order])
        at == Cardinality({j \in 1..i : HasEntry(j)})
    IN (CHOOSE p \in 1..Len(merged) : perm[p] = at) - 1

\* ranks (order values) an id holds in the table the last call found
PrevRanksOf(id) ==
    {existing_file.posts[k].order :
        k \in {i \in 1..Len(existing_file.posts) : existing_file.posts[i].post_id = id}}

PrevBefore(id, other) ==
    /\ PrevRanksOf(id) # {}
    /\ PrevRanksOf(other) # {}
    /\ \A r \in PrevRanksOf(id), q \in PrevRanksOf(other) : r < q

\* ------------------------------------------------------------------ claims

\* C1: after every call of _update_post_order that completes, the order values
\* of the written entries are exactly 0, 1, ..., N-1 in this, ascending, order.
C1_DenseAscendingRanks ==
    Returned => \A k \in 1..Len(written) : written[k].order = k - 1

\* C1 witness: a completed call that merged the gapped table {A:0, C:5} and
\* wrote at least two entries, one of them for C.
C1_Witness ==
    /\ Returned
    /\ existing_file = TableFile(ExampleTable)
    /\ Len(written) >= 2
    /\ RanksOf("C") # {}

\* C2: in the written table every post_id appears at most once, also for post
\* lists in which two records yield the same post_id or the empty post_id.
C2_PostIdAtMostOnce ==
    Returned => \A i, j \in 1..Len(written) : written[i].post_id = written[j].post_id => i = j

\* C3: _update_post_order never raises: every call completes normally and
\* leaves a written table, whatever the posts, the fresh order and the file.
C3_NeverRaises ==
    Called => raised = "none" /\ order_file.kind = "table"

\* C4: with a non-empty fresh order, of two current posts both named in it the
\* one named earlier gets the smaller final rank, whatever the previous table.
C4_FreshOrderWins ==
    (Returned /\ HasFresh(pre_fetched_order)) =>
        \A i, j \in 1..Len(pre_fetched_order.ids) :
            (/\ i < j
             /\ pre_fetched_order.ids[i] \in CurrentIds
             /\ pre_fetched_order.ids[j] \in CurrentIds)
            => RanksBefore(pre_fetched_order.ids[i], pre_fetched_order.ids[j])

\* C4 witness: two current posts named in the fresh order which the previous
\* table ranked the other way round, after a completed call.
C4_Witness ==
    /\ Returned
    /\ runs = 1
    /\ HasFresh(pre_fetched_order)
    /\ \E i, j \in 1..Len(pre_fetched_order.ids) :
        /\ i < j
        /\ {pre_fetched_order.ids[i], pre_fetched_order.ids[j]} \subseteq CurrentIds
        /\ PrevBefore(pre_fetched_order.ids[j], pre_fetched_order.ids[i])

\* the reconciler example: fresh [B, A], previous {A:0, C:5}, posts {A, B, C}
IsExampleCall ==
    /\ Called
    /\ pre_fetched_order = Fresh(<<"B", "A">>)
    /\ existing_file = TableFile(ExampleTable)
    /\ Len(posts) = 3
    /\ CurrentIds = {"A", "B", "C"}

\* C5: for fresh [B, A], previous {A:0, C:5} and posts {A, B, C} in any input
\* order the written table is B:0, A:1, C:2.
C5_Example ==
    IsExampleCall =>
        /\ raised = "none"
        /\ written = <<Entry("B", 0), Entry("A", 1), Entry("C", 2)>>

\* C5 witness: the example was run on the post list given as C, A, B.
C5_Witness ==
    /\ IsExampleCall
    /\ Returned
    /\ [i \in 1..3 |-> posts[i].post_id] = <<"C", "A", "B">>

\* current posts not named in the fresh order but present in the previous table
RetainedIds ==
    {id \in CurrentIds \ FreshIds : PrevRanksOf(id) # {}}

\* C6: with a non-empty fresh order every current post not named in it but
\* present in the previous table is in the new table, and two such posts keep
\* the relative order the previous table gave them.
C6_RetainedKeepOrder ==
    (Returned /\ HasFresh(pre_fetched_order)) =>
        /\ \A id \in RetainedIds : RanksOf(id) # {}
        /\ \A id, other \in RetainedIds : PrevBefore(id, other) => RanksBefore(id, other)

\* C6 witness: two retained posts listed in the post list against their
\* previous order, with a freshly named current post in the same table.
C6_Witness ==
    /\ Returned
    /\ HasFresh(pre_fetched_order)
    /\ FreshIds \cap CurrentIds # {}
    /\ \E i, j \in 1..Len(posts) :
        /\ i < j
        /\ {posts[i].post_id, posts[j].post_id} \subseteq RetainedIds
        /\ PrevBefore(posts[j].post_id, posts[i].post_id)

\* C7: with a non-empty fresh order the written table holds exactly the current
\* posts named in the fresh order or present in the previous table.
C7_ExactlyEvidencedPosts ==
    (Returned /\ HasFresh(pre_fetched_order)) =>
        {written[k].post_id : k \in 1..Len(written)}
            = {id \in CurrentIds : id \in FreshIds \/ PrevRanksOf(id) # {}}

\* C7 witness: a completed call with a current post absent from both sources,
\* an id named only in the fresh order and an id held only by the previous table.
C7_Witness ==
    /\ Returned
    /\ HasFresh(pre_fetched_order)
    /\ \E id \in CurrentIds : id \notin FreshIds /\ PrevRanksOf(id) = {}
    /\ FreshIds \ CurrentIds # {}
    /\ \E id \in PostIds \ CurrentIds : PrevRanksOf(id) # {}
    /\ written # <<>>

\* C8: a second run with the same post list, the same fresh order and the table
\* of the first run as previous table writes the same table again.
C8_StableOnRerun ==
    (runs >= 2 /\ Returned) => written = existing_file.posts

\* C9: in fallback mode, of two current posts with parsable archive timestamps
\* T0 and T0+1s the one archived at T0 ranks before the other (stated for two
\* posts of different post_id, whose entries can be told apart in the table).
C9_EarlierArchivedFirst ==
    (Returned /\ ~HasFresh(pre_fetched_order)) =>
        \A i, j \in 1..Len(posts) :
            (/\ posts[i].post_id # posts[j].post_id
             /\ HasUsableStamp(posts[i])
             /\ HasUsableStamp(posts[j])
             /\ ParseArchived(posts[j].when_archived).t
                    = ParseArchived(posts[i].when_archived).t + 1)
            => RankOfPost(i) < RankOfPost(j)

\* C10: in fallback mode every ranked post without a usable archive timestamp
\* ranks after all posts that have one, for any previous table (stated for post
\* lists of pairwise different post_ids).
C10_UnstampedLast ==
    (/\ Returned
     /\ ~HasFresh(pre_fetched_order)
     /\ IsInjective([i \in 1..Len(posts) |-> posts[i].post_id])) =>
        \A i, j \in 1..Len(posts) :
            (/\ ~HasUsableStamp(posts[i])
             /\ HasEntry(i)
             /\ HasUsableStamp(posts[j]))
            => RankOfPost(j) < RankOfPost(i)

\* ------------------------------------------- loader and membership steps
\* exception json.load / from_json ends with on a record file that the except
\* clause (JSONDecodeError, IOError) of lines 487 and 289 does not cover
ExceptionOf(kind) ==
    IF kind = "cut" THEN "UnicodeDecodeError" ELSE "AttributeError"

\* record files in rglob order that end the loop with such an exception
RaisingPaths(d) == SelectSeq(PathOrder, LAMBDA p : d[p].kind \in {"cut", "nonobject"})

\* load_archived_posts / _load_member_post_ids: the exception the scan ends
\* with, "none" when it completes (lines 477-478 and 276-277: no directory,
\* no scan)
LoadRaised(d, dir_exists) ==
    IF ~dir_exists \/ RaisingPaths(d) = <<>> THEN "none"
    ELSE ExceptionOf(d[Head(RaisingPaths(d))].kind)

\* CommunityPost.from_json (lines 38-71) on the record of a directory
LoadedPost(path, d) ==
    [post_id |-> IdAt(path), is_members |-> d[path].is_members, path |-> path]

\* load_archived_posts, lines 473-490: one post per record that parses
LoadArchivedPosts(d, dir_exists) ==
    IF ~dir_exists THEN <<>>
    ELSE LET good == SelectSeq(PathOrder, LAMBDA p : d[p].kind = "record")
         IN [k \in 1..Len(good) |-> LoadedPost(good[k], d)]

\* lines 487-488: the files skipped with "Warning: Could not load"
LoadWarnings(d, dir_exists) ==
    IF ~dir_exists THEN {}
    ELSE {p \in Paths : d[p].kind \in {"malformed", "unreadable"}}

\* _load_member_post_ids, lines 273-290
LoadMemberPostIds(d, dir_exists) ==
    IF ~dir_exists THEN {}
    ELSE {IdAt(p) : p \in {q \in Paths : d[q].kind = "record" /\ d[q].is_members}}

\* line 296: if post.post_id in member_ids and not post.is_members
NeedsCorrection(post, member_ids) ==
    post.post_id \in member_ids /\ ~post.is_members

\* variant: every listed post takes the membership of the set
RestorePostFromSet(post, member_ids) ==
    [post EXCEPT !.is_members = post.post_id \in member_ids]

\* line 297: post.is_members = True
RestorePost(post, member_ids) ==
    IF NeedsCorrection(post, member_ids)
    THEN [post EXCEPT !.is_members = TRUE]
    ELSE post

\* the in-memory effect of _restore_member_status, lines 294-297
RestoreMemberStatus(ps, member_ids) ==
    [i \in 1..Len(ps) |-> RestorePost(ps[i], member_ids)]

\* line 300: output_dir / post.post_id / "post.json"
CanonicalPath(post_id) == post_id

\* directories whose record the pass tries to update (lines 300-301)
UpdateTargets(ps, member_ids, d) ==
    {p \in Paths :
        /\ d[p].kind # "absent"
        /\ \E i \in 1..Len(ps) :
              NeedsCorrection(ps[i], member_ids) /\ CanonicalPath(ps[i].post_id) = p}

\* lines 302-309: the read or the write of the record fails and is caught
UpdateFails(p, d, ro) ==
    d[p].kind \in {"malformed", "unreadable"} \/ p \in ro

\* the records after the pass: data["is_members"] = True in each target
RestoredDisk(ps, member_ids, d, ro) ==
    [p \in Paths |->
        IF p \in UpdateTargets(ps, member_ids, d) /\ ~UpdateFails(p, d, ro)
        THEN Record(TRUE)
        ELSE d[p]]

\* line 309: ids with "Warning: Could not update member status"
RestoreWarnings(ps, member_ids, d, ro) ==
    {IdAt(p) : p \in {q \in UpdateTargets(ps, member_ids, d) : UpdateFails(q, d, ro)}}

\* the posts as _update_post_order reads them (records of one scrape share
\* the form of their when_archived)
OrderPosts(ps) ==
    [i \in 1..Len(ps) |-> [post_id |-> ps[i].post_id, when_archived |-> UtcStamp(0)]]

\* ------------------------------------------------------------ run_archiver
\* how one process started by subprocess.run ends (lines 432-471)
Outcomes == {"exit_0", "session_lost", "exit_nonzero", "timeout", "not_found"}

\* variant: every non-zero exit is retried
RetriesAny(outcome, attempt) ==
    outcome \in {"session_lost", "exit_nonzero"} /\ attempt < max_retries

\* lines 444-447: "InvalidSessionIdException" in stderr and attempt < max_retries
Retries(outcome, attempt) ==
    outcome = "session_lost" /\ attempt < max_retries

\* records the external archiver may leave behind when it ran: it writes
\* complete records to directories of the channel
ArchiverWrites(d, ch) ==
    {nd \in [Paths -> {NoRecord, Record(FALSE), Record(TRUE), MalformedRecord}] :
        \A p \in Paths :
            \/ nd[p] = d[p]
            \/ p \in ch /\ nd[p].kind = "record"}

\* records whose open(..., "w") may fail with an OSError during a pass (file
\* locked or write-protected at that moment)
WriteFailures == SUBSET {"A", "B"}

\* what _fetch_post_order_from_page returns: [] after any exception (line
\* 195-197), else the ids it saw on the page
FetchedOrders == {Fresh(<<>>), Fresh(<<"B", "A">>)}

Terminal == {"idle", "empty", "processing", "raised"}

\* values every run starts from; member_seen notes the records that are
\* member-only on disk when the run begins
ResetRun ==
    /\ attempts' = NoAttempts
    /\ warned' = {}
    /\ readonly' = {}
    /\ posts' = <<>>
    /\ existing_file' = AbsentFile
    /\ member_seen' = member_seen \cup {p \in Paths : disk[p] = Record(TRUE)}

\* variant: the generate-only run restores the membership flags as an
\* archiving run does
StartGenerateOnlyRestoring ==
    /\ pc \in Terminal
    /\ ResetRun
    /\ raised' = LoadRaised(disk, output_dir_exists)
    /\ IF raised' = "none"
       THEN /\ loaded' = LoadArchivedPosts(disk, output_dir_exists)
            /\ skipped' = LoadWarnings(disk, output_dir_exists)
            /\ pc' = IF loaded' = <<>> THEN "empty" ELSE "processing"
       ELSE /\ loaded' = <<>>
            /\ skipped' = {}
            /\ pc' = "raised"
    /\ returned' = loaded'
    /\ disk' = RestoredDisk(loaded', LoadMemberPostIds(disk, output_dir_exists), disk, {})
    /\ existing_member_ids' = {}
    /\ UNCHANGED <<pre_fetched_order, output_dir_exists, order_file, runs,
                   channel, tool_outcomes, config, filterVars, viewVars>>

\* main.py run_archiver with generate_only (lines 222-236): load what is
\* there; no post ends the run, else it goes on to process_all
StartGenerateOnly ==
    /\ pc \in Terminal
    /\ ResetRun
    /\ raised' = LoadRaised(disk, output_dir_exists)
    /\ IF raised' = "none"
       THEN /\ loaded' = LoadArchivedPosts(disk, output_dir_exists)
            /\ skipped' = LoadWarnings(disk, output_dir_exists)
            /\ pc' = IF loaded' = <<>> THEN "empty" ELSE "processing"
       ELSE /\ loaded' = <<>>
            /\ skipped' = {}
            /\ pc' = "raised"
    /\ returned' = loaded'
    /\ existing_member_ids' = {}
    /\ UNCHANGED <<pre_fetched_order, output_dir_exists, order_file, runs,
                   disk, channel, tool_outcomes, config, filterVars, viewVars>>

\* main.py run_archiver without generate_only up to the first process start:
\* the channel fetcher creates the output directory only when it got the
\* channel info (channel_fetcher.py 446, 479); archive_channel then reads the
\* member ids on disk and fetches the fresh order (archiver.py 244-251)
StartArchiving ==
    /\ pc \in Terminal
    /\ runs < MaxRuns
    /\ ResetRun
    /\ \E fetched \in (IF config.fetch_channel_info THEN BOOLEAN ELSE {FALSE}) :
          output_dir_exists' = (output_dir_exists \/ fetched)
    /\ raised' = LoadRaised(disk, output_dir_exists')
    /\ IF raised' = "none"
       THEN /\ existing_member_ids' = LoadMemberPostIds(disk, output_dir_exists')
            /\ pre_fetched_order' \in FetchedOrders
            /\ pc' = "regular"
       ELSE /\ existing_member_ids' = {}
            /\ pre_fetched_order' = Fresh(<<>>)
            /\ pc' = "raised"
    /\ loaded' = <<>>
    /\ returned' = <<>>
    /\ skipped' = {}
    /\ UNCHANGED <<order_file, runs, disk, channel, tool_outcomes, config, filterVars, viewVars>>

\* variant: the membership feed is archived whenever it is asked for
AfterCallUnauthenticated(call) ==
    IF call = "regular" /\ config.include_members
    THEN "membership"
    ELSE "finish"

\* archive_channel, lines 254 and 258-260: the call that follows the regular one
AfterCall(call) ==
    IF call = "regular" /\ config.include_members /\ config.credentials
    THEN "membership"
    ELSE "finish"

\* one iteration of the loop of _run_archiver (lines 430-471): a process is
\* started and ends with one outcome; unless the interpreter was not found it
\* may have created the output directory (it has when it exits with 0) and
\* written records
Attempt ==
    /\ pc \in {"regular", "membership"}
    /\ \E outcome \in tool_outcomes :
          LET before == IF attempts.call = pc THEN attempts.outcomes ELSE <<>>
          IN /\ attempts' = [call |-> pc, outcomes |-> Append(before, outcome)]
             /\ pc' = IF Retries(outcome, Len(before)) THEN pc ELSE AfterCall(pc)
             /\ IF outcome = "not_found"
                THEN UNCHANGED <<disk, output_dir_exists>>
                ELSE /\ disk' \in ArchiverWrites(disk, channel)
                     /\ output_dir_exists' \in
                           IF outcome = "exit_0" THEN {TRUE}
                           ELSE {output_dir_exists \/ disk' # EmptyDisk, TRUE}
    /\ UNCHANGED <<posts, pre_fetched_order, order_file, existing_file, raised, runs,
                   readonly, channel, tool_outcomes, config, existing_member_ids,
                   loaded, returned, skipped, warned, member_seen, filterVars, viewVars>>

\* archive_channel lines 262-271 and main.py 234-236: load the posts, restore
\* the membership flags, update the order table; an exception of any of them
\* leaves run_archiver, no post ends the run, else it goes on to process_all
FinishArchive ==
    /\ pc = "finish"
    /\ IF LoadRaised(disk, output_dir_exists) # "none"
       THEN /\ raised' = LoadRaised(disk, output_dir_exists)
            /\ pc' = "raised"
            /\ UNCHANGED <<posts, order_file, existing_file, runs, disk, readonly,
                           loaded, returned, skipped, warned>>
       ELSE /\ loaded' = LoadArchivedPosts(disk, output_dir_exists)
            /\ skipped' = LoadWarnings(disk, output_dir_exists)
            /\ returned' = RestoreMemberStatus(loaded', existing_member_ids)
            /\ readonly' \in WriteFailures
            /\ disk' = RestoredDisk(loaded', existing_member_ids, disk, readonly')
            /\ warned' = RestoreWarnings(loaded', existing_member_ids, disk, readonly')
            /\ posts' = OrderPosts(returned')
            /\ existing_file' = order_file
            /\ runs' = runs + 1
            /\ raised' = RaisedBy(posts', pre_fetched_order, order_file, output_dir_exists)
            /\ order_file' = IF raised' = "none"
                             THEN TableFile(FinalOrder(posts', pre_fetched_order, order_file))
                             ELSE order_file
            /\ pc' = IF raised' # "none" THEN "raised"
                     ELSE IF returned' = <<>> THEN "empty" ELSE "processing"
    /\ UNCHANGED <<pre_fetched_order, output_dir_exists, channel, tool_outcomes, config,
                   attempts, existing_member_ids, member_seen, filterVars, viewVars>>

NextRun == StartGenerateOnly \/ StartArchiving \/ Attempt \/ FinishArchive

\* what is fixed before the first run: nothing reconciled or filtered yet
BeforeFirstRun ==
    /\ posts = <<>>
    /\ pre_fetched_order = Fresh(<<>>)
    /\ existing_file = AbsentFile
    /\ order_file = AbsentFile
    /\ raised = "none"
    /\ runs = 0
    /\ pc = "idle"
    /\ attempts = NoAttempts
    /\ existing_member_ids = {}
    /\ loaded = <<>>
    /\ returned = <<>>
    /\ skipped = {}
    /\ warned = {}
    /\ readonly = {}
    /\ member_seen = {}
    /\ FilterIdle
    /\ ViewIdle

\* first runs: nothing archived yet, the output directory may not exist; any
\* command line; the channel has no post or one
InitRun ==
    /\ BeforeFirstRun
    /\ disk = EmptyDisk
    /\ channel \in {{}, {"A"}}
    /\ tool_outcomes = Outcomes
    /\ config \in Configs
    /\ output_dir_exists \in BOOLEAN

SpecRun == InitRun /\ [][NextRun]_vars

\* every started process ends (subprocess.run has a timeout, line 436) and
\* the loop goes on to its next iteration or leaves
SpecRunFair == SpecRun /\ WF_vars(Attempt)

\* archives of earlier runs with member-only and public records, canonical
\* and nested; logged-in runs with membership tab whose processes exit with 0
InitMembers ==
    /\ BeforeFirstRun
    /\ disk \in [Paths -> {NoRecord, Record(FALSE), Record(TRUE), MalformedRecord}]
    /\ channel = Paths
    /\ tool_outcomes = {"exit_0"}
    /\ config = [credentials |-> TRUE, include_members |-> TRUE, fetch_channel_info |-> FALSE]
    /\ output_dir_exists = TRUE

SpecMembers == InitMembers /\ [][NextRun]_vars

\* an archiving run got as far as its membership pass (lines 262-266)
RestorePassDone ==
    /\ attempts.call # "none"
    /\ pc \in {"empty", "processing", "raised"}
    /\ raised \notin {"UnicodeDecodeError", "AttributeError"}

\* archive_channel returned its posts to run_archiver
ArchiveReturned == attempts.call # "none" /\ pc \in {"empty", "processing"}

\* positions of the loaded list the pass had to correct
Corrected == {i \in 1..Len(loaded) : NeedsCorrection(loaded[i], existing_member_ids)}

\* C11: after _restore_member_status(posts, member_ids) every post whose id is
\* in member_ids is member-only, every other post has the is_members it was
\* loaded with, and no post went from member-only to public.
C11_RestoredInMemory ==
    RestorePassDone =>
        /\ Len(returned) = Len(loaded)
        /\ \A i \in 1..Len(loaded) :
              /\ returned[i].post_id = loaded[i].post_id
              /\ loaded[i].post_id \in existing_member_ids => returned[i].is_members
              /\ loaded[i].post_id \notin existing_member_ids
                    => returned[i].is_members = loaded[i].is_members
              /\ loaded[i].is_members => returned[i].is_members

\* a pass that corrected one post, left a public post public and left a
\* member-only post outside the set member-only
C11_Witness ==
    /\ RestorePassDone
    /\ Corrected # {}
    /\ \E i \in 1..Len(loaded) :
          loaded[i].post_id \notin existing_member_ids /\ ~returned[i].is_members
    /\ \E i \in 1..Len(loaded) :
          loaded[i].post_id \notin existing_member_ids /\ returned[i].is_members

\* C12: every post the pass corrected has is_members = true in the post.json
\* it was loaded from, unless a warning was reported for that post.
C12_CorrectionPersisted ==
    RestorePassDone =>
        \A i \in Corrected :
            disk[loaded[i].path] = Record(TRUE) \/ loaded[i].post_id \in warned

\* C13: a record that was member-only on disk when some run began is
\* member-only, in the returned list and on disk, at the end of every
\* archive_channel run that loads it.
C13_MemberStatusMonotonic ==
    ArchiveReturned =>
        \A i \in 1..Len(returned) :
            returned[i].path \in member_seen
                => returned[i].is_members /\ disk[returned[i].path] = Record(TRUE)

\* C14: when the pass warned about one post, every other post that needed
\* correction is member-only in memory and in its record.
C14_FailureDoesNotAbort ==
    RestorePassDone /\ warned # {} =>
        \A i \in Corrected :
            loaded[i].post_id \notin warned
                => returned[i].is_members /\ disk[loaded[i].path] = Record(TRUE)

\* ------------------------------------------------------------ the loader
\* a generate-only run on any archive: each directory holds no record or a
\* record file of any kind; without output directory there is no record
InitLoad ==
    /\ BeforeFirstRun
    /\ output_dir_exists \in BOOLEAN
    /\ disk \in IF output_dir_exists
                THEN [Paths -> {NoRecord, Record(FALSE), Record(TRUE), MalformedRecord,
                                UnreadableRecord, CutRecord, NonObjectRecord}]
                ELSE {EmptyDisk}
    /\ channel = {}
    /\ tool_outcomes = {}
    /\ config \in {c \in Configs : ~c.fetch_channel_info}

SpecLoad == InitLoad /\ [][StartGenerateOnly]_vars

\* load_archived_posts was called by a generate-only run
LoadDone == pc \in {"empty", "processing", "raised"} /\ attempts.call = "none"

\* record files present under the output root
RecordFiles == {p \in Paths : disk[p].kind # "absent"}

\* C15: load_archived_posts returns one Post per record file that parses,
\* skips every other record file with one warning and does not raise; an
\* empty or absent root yields the empty list.
C15_LoaderSkipsBadRecords ==
    LoadDone =>
        /\ raised = "none"
        /\ Len(loaded) = Cardinality({p \in RecordFiles : disk[p].kind = "record"})
        /\ \A p \in RecordFiles :
              disk[p].kind = "record" <=> \E i \in 1..Len(loaded) : loaded[i].path = p
        /\ skipped = {p \in RecordFiles : disk[p].kind # "record"}
        /\ RecordFiles = {} => loaded = <<>>

\* ------------------------------------------------------- display ordering
\* DataProcessor._load_post_order, data_processor.py 75-85: the same
\* comprehension over data["posts"], {} without file or after JSONDecodeError
LoadPostOrder(file) == LoadExistingOrder(file)

\* DataProcessor._sort_by_order, lines 87-110: the exception it ends with; an
\* empty mapping falls back to _sort_by_date (lines 112-155), whose keys
\* (0, datetime) compare a naive with an aware datetime
SortByOrderRaises(ps, file) ==
    CASE LoadExistingRaises(file) -> "KeyError"
      [] ~LoadExistingRaises(file) /\ LoadPostOrder(file) = EmptyDict /\ SortByTimeRaises(ps)
            -> "TypeError"
      [] OTHER -> "none"

\* C16: with an unparsable post_order.json, _load_post_order returns the empty
\* mapping and _sort_by_order falls back to timestamps without raising, and
\* _update_post_order returns after writing the table it would write without
\* previous table (posts of distinct ids).
C16_UnparsableOrderFileTolerated ==
    /\ Called
    /\ existing_file = UnparsableFile
    /\ IsInjective([i \in 1..Len(posts) |-> posts[i].post_id])
    =>
        /\ LoadPostOrder(existing_file) = EmptyDict
        /\ SortByOrderRaises(posts, existing_file) = "none"
        /\ existing_order = EmptyDict
        /\ raised = "none"
        /\ order_file = TableFile(FinalOrder(posts, pre_fetched_order, AbsentFile))

\* ------------------------------------------------------ collaborator runs
\* the _run_archiver call the last process belonged to is still in its loop
CallRunning == attempts.call # "none" /\ pc = attempts.call

\* C17: one _run_archiver call starts at most max_retries + 1 processes; every
\* process but the last ended with the session-loss marker, any other outcome
\* ends the call at once; and every call comes to its end.
C17_AttemptsBounded ==
    LET o == attempts.outcomes
    IN /\ Len(o) <= max_retries + 1
       /\ \A k \in 1..(Len(o) - 1) : o[k] = "session_lost"
       /\ CallRunning => o[Len(o)] = "session_lost" /\ Len(o) <= max_retries

C17_RunArchiverRetries ==
    /\ []C17_AttemptsBounded
    /\ \A call \in {"regular", "membership"} : (pc = call) ~> (pc # call)

\* a call that lost its session max_retries + 1 times and then gave up
C17_Witness ==
    /\ attempts.call = "regular"
    /\ attempts.outcomes = <<"session_lost", "session_lost", "session_lost">>
    /\ ~CallRunning

\* archive_channel came to its end in this run, by return or by exception
ArchiveEnded == attempts.call # "none" /\ pc \in {"empty", "processing", "raised"}

\* C18: whatever the outcomes of the archiver processes and of the fresh-order
\* fetch, archive_channel loads the posts, restores membership, updates the
\* order table and returns the posts without raising.
C18_CollaboratorFailureTolerated ==
    ArchiveEnded =>
        /\ raised = "none"
        /\ returned = RestoreMemberStatus(LoadArchivedPosts(disk, output_dir_exists),
                                          existing_member_ids)
        /\ order_file.kind = "table"

\* C19: a run of run_archiver that finds no post at all (generate-only or
\* archiving, output directory present or not) returns normally without
\* going on to the processor.
C19_EmptyInputIsNormal ==
    pc \in {"empty", "processing", "raised"} /\ RecordFiles = {} =>
        pc = "empty" /\ raised = "none"

\* --------------------------------------------------- filter_by_date_range
\* a post reduced to what the filter reads: its estimated_date (None when
\* parse_relative_date found none)
DatedPost(id, d) == [post_id |-> id, estimated_date |-> d]

OptionalDates == {NoDate} \cup {Date(t) : t \in 0..MaxDate}

\* variant: a date equal to a bound is skipped
KeepsExclusive(post, start, end) ==
    \/ ~post.estimated_date.has
    \/ /\ ~(start.has /\ post.estimated_date.t <= start.t)
       /\ ~(end.has /\ post.estimated_date.t >= end.t)

\* data_processor.py lines 178-187: no date -> appended; before start or
\* after end -> skipped ("if start_date and ...": None is falsy)
Keeps(post, start, end) ==
    \/ ~post.estimated_date.has
    \/ /\ ~(start.has /\ post.estimated_date.t < start.t)
       /\ ~(end.has /\ post.estimated_date.t > end.t)

\* lines 176-189: the posts kept, appended in list order
FilterByDateRange(ps, start, end) ==
    SelectSeq(ps, LAMBDA post : Keeps(post, start, end))

InitFilter ==
    /\ InitNoDir /\ pre_fetched_order = NoFresh
    /\ existing_file = AbsentFile /\ raised = "none" /\ runs = 0
    /\ RunIdle
    /\ filtered = NotFiltered
    /\ ViewIdle
    /\ candidates \in SeqsUpTo({DatedPost(id, d) : id \in {"A", "B"}, d \in OptionalDates},
                               MaxCandidates)
    /\ start_date \in OptionalDates
    /\ end_date \in OptionalDates

\* DataProcessor.filter_by_date_range(posts, start_date, end_date)
FilterCall ==
    /\ ~filtered.called
    /\ filtered' = [called |-> TRUE,
                    posts |-> FilterByDateRange(candidates, start_date, end_date)]
    /\ UNCHANGED <<candidates, start_date, end_date, orderVars, runVars, viewVars>>

SpecFilter == InitFilter /\ [][FilterCall]_vars

\* the post lies within the bounds that are given, bounds included
WithinBounds(post) ==
    /\ start_date.has => start_date.t <= post.estimated_date.t
    /\ end_date.has => post.estimated_date.t <= end_date.t

\* positions of the input the claim says are returned
Included == {i \in 1..Len(candidates) :
                ~candidates[i].estimated_date.has \/ WithinBounds(candidates[i])}

\* C20: filter_by_date_range returns, in input order, exactly the posts that
\* have no estimated_date or whose date d has start <= d and d <= end for the
\* bounds given.
C20_FilterByDateRange ==
    filtered.called =>
        /\ Len(filtered.posts) = Cardinality(Included)
        /\ \A k \in 1..Len(filtered.posts) :
              filtered.posts[k] =
                  candidates[CHOOSE i \in Included :
                                Cardinality({j \in Included : j < i}) = k - 1]

\* a call that dropped a post outside the range, kept one dated exactly at the
\* start bound and kept an undated one
C20_Witness ==
    /\ filtered.called
    /\ start_date.has /\ end_date.has
    /\ \E i \in 1..Len(candidates) : i \notin Included
    /\ \E i \in Included : candidates[i].estimated_date = start_date
    /\ \E i \in Included : ~candidates[i].estimated_date.has
    /\ Len(filtered.posts) = 2

\* ------------------------------------------------------ read-only queries
\* a loaded CommunityPost, reduced to the fields the queries read
ShownPost(id, stamp, d, m) ==
    [post_id |-> id, when_archived |-> stamp, estimated_date |-> d, is_members |-> m]

\* the posts with an estimated_date ("if p.estimated_date")
Dated(ps) == {i \in 1..Len(ps) : ps[i].estimated_date.has}

\* variant: public counts every post
GetStatisticsPublicAll(ps) ==
    LET members == Cardinality({i \in 1..Len(ps) : ps[i].is_members})
        ts == {ps[i].estimated_date.t : i \in Dated(ps)}
    IN [total_posts |-> Len(ps),
        members_only |-> members,
        public |-> Len(ps),
        oldest_post |-> IF ts = {} THEN NoDate ELSE Date(CHOOSE t \in ts : \A u \in ts : t <= u),
        newest_post |-> IF ts = {} THEN NoDate ELSE Date(CHOOSE t \in ts : \A u \in ts : t >= u)]

\* DataProcessor.get_statistics, data_processor.py 250-275 (with_images and
\* with_polls count fields no query below reads)
GetStatistics(ps) ==
    LET members == Cardinality({i \in 1..Len(ps) : ps[i].is_members})
        ts == {ps[i].estimated_date.t : i \in Dated(ps)}
    IN [total_posts |-> Len(ps),
        members_only |-> members,
        public |-> Len(ps) - members,
        oldest_post |-> IF ts = {} THEN NoDate ELSE Date(CHOOSE t \in ts : \A u \in ts : t <= u),
        newest_post |-> IF ts = {} THEN NoDate ELSE Date(CHOOSE t \in ts : \A u \in ts : t >= u)]

\* archiver.py 502-505: (0, estimated_date), or (1, datetime.min) without date;
\* as one number that compares like the tuple
DateKey(post) ==
    IF post.estimated_date.has THEN post.estimated_date.t ELSE MaxDate + 1

\* PostArchiver.get_posts_sorted_by_date, archiver.py 492-508:
\* posts.sort(key=sort_key, reverse=descending); a reversed sort is stable too
GetPostsSortedByDate(ps, descending) ==
    LET perm == StableSortPerm([i \in 1..Len(ps) |->
                    IF descending THEN 0 - DateKey(ps[i]) ELSE DateKey(ps[i])])
    IN [k \in 1..Len(ps) |-> ps[perm[k]]]

\* what the queries leave alone: no archive run, no reconciliation, no filter
QueryIdle ==
    /\ pre_fetched_order = NoFresh
    /\ output_dir_exists = TRUE
    /\ existing_file = AbsentFile /\ raised = "none" /\ runs = 0
    /\ RunIdle /\ FilterIdle
    /\ view = NoView

\* the ids of a loaded post list: up to MaxShown posts, each directory once
DistinctIdLists == {ids \in SeqsUpTo({"A", "B", "C"}, MaxShown) : IsInjective(ids)}

\* post lists that differ in estimated_date and is_members
InitByDate ==
    /\ QueryIdle
    /\ phrase = NoPhrase
    /\ order_file = AbsentFile
    /\ \E ids \in DistinctIdLists :
          \E shapes \in [1..Len(ids) -> OptionalDates \X BOOLEAN] :
             posts = [i \in 1..Len(ids) |->
                         ShownPost(ids[i], EmptyStamp, shapes[i][1], shapes[i][2])]

\* DataProcessor.get_statistics(posts)
StatisticsCall ==
    /\ view = NoView
    /\ view' = [op |-> "get_statistics", result |-> GetStatistics(posts)]
    /\ UNCHANGED <<orderVars, runVars, filterVars, phrase>>

\* PostArchiver.get_posts_sorted_by_date(descending) on the loaded posts
SortedByDateCall ==
    /\ view = NoView
    /\ \E descending \in BOOLEAN :
          view' = [op |-> "get_posts_sorted_by_date", descending |-> descending,
                   result |-> GetPostsSortedByDate(posts, descending)]
    /\ UNCHANGED <<orderVars, runVars, filterVars, phrase>>

SpecByDate == InitByDate /\ [][StatisticsCall \/ SortedByDateCall]_vars

\* C21: get_statistics returns total_posts = number of posts, members_only =
\* number of member-only posts, public = the rest, and oldest_post /
\* newest_post = least / greatest estimated_date of the dated posts, both
\* None when no post is dated.
C21_Statistics ==
    view.op = "get_statistics" =>
        LET r == view.result
        IN /\ r.total_posts = Len(posts)
           /\ r.members_only = Cardinality({i \in 1..Len(posts) : posts[i].is_members})
           /\ r.public = r.total_posts - r.members_only
           /\ Dated(posts) = {} => r.oldest_post = NoDate /\ r.newest_post = NoDate
           /\ Dated(posts) # {} =>
                 /\ \E i \in Dated(posts) : r.oldest_post = posts[i].estimated_date
                 /\ \E i \in Dated(posts) : r.newest_post = posts[i].estimated_date
                 /\ \A i \in Dated(posts) :
                       /\ r.oldest_post.t <= posts[i].estimated_date.t
                       /\ posts[i].estimated_date.t <= r.newest_post.t

\* the example: a dated member-only post and an undated public one
C21_Witness ==
    /\ view.op = "get_statistics"
    /\ posts = <<ShownPost("A", EmptyStamp, Date(0), TRUE),
                 ShownPost("B", EmptyStamp, NoDate, FALSE)>>
    /\ view.result = [total_posts |-> 2, members_only |-> 1, public |-> 1,
                      oldest_post |-> Date(0), newest_post |-> Date(0)]

\* C28: in the result of get_posts_sorted_by_date, for either value of
\* descending, every post without an estimated date comes after every post
\* that has one, and with descending the dated posts run from the latest
\* date to the earliest.
C28_UndatedLast ==
    view.op = "get_posts_sorted_by_date" =>
        LET r == view.result
        IN \A i, j \in 1..Len(r) :
              /\ (r[i].estimated_date.has /\ ~r[j].estimated_date.has) => i < j
              /\ (/\ view.descending /\ i < j
                  /\ r[i].estimated_date.has /\ r[j].estimated_date.has)
                    => r[i].estimated_date.t >= r[j].estimated_date.t

\* ------------------------------------------------------------ process_all
\* sorted(posts, key=..., reverse=r): ascending by key, or descending with
\* reverse; in both directions posts of equal key keep their input order
SortedBy(ps, keys, reverse) ==
    LET perm == StableSortPerm([i \in 1..Len(ps) |-> IF reverse THEN 0 - keys[i] ELSE keys[i]])
    IN [k \in 1..Len(ps) |-> ps[perm[k]]]

\* the tuple keys (group, value) as one number: the group decides first
KeySpan == MaxTime + MaxDate + MaxShown + 1
TupleKey(group, value) == group * KeySpan + value

\* variant: posts without entry take the key of rank 0
OrderKeyUnrankedAsZero(post, post_order) ==
    IF post.post_id \in DOMAIN post_order
    THEN TupleKey(0, post_order[post.post_id])
    ELSE TupleKey(0, 0)

\* _sort_by_order, lines 102-106: (0, rank) for a post of the table, else (1, 0)
OrderKey(post, post_order) ==
    IF post.post_id \in DOMAIN post_order
    THEN TupleKey(0, post_order[post.post_id])
    ELSE TupleKey(1, 0)

\* _sort_by_date, lines 133-151: (0, archive time), (1, estimated date), (2, min)
DateSortKey(post) ==
    IF HasUsableStamp(post) THEN TupleKey(0, ParseArchived(post.when_archived).t)
    ELSE IF post.estimated_date.has THEN TupleKey(1, post.estimated_date.t)
    ELSE TupleKey(2, 0)

\* _sort_by_date, line 155
SortPostsByDate(ps, newest_first) ==
    SortedBy(ps, [i \in 1..Len(ps) |-> DateSortKey(ps[i])], ~newest_first)

\* _sort_by_order, lines 98-110: by the table when it is non-empty
SortPostsByOrder(ps, file, newest_first) ==
    LET post_order == LoadPostOrder(file)
    IN IF post_order # EmptyDict
       THEN SortedBy(ps, [i \in 1..Len(ps) |-> OrderKey(ps[i], post_order)], ~newest_first)
       ELSE SortPostsByDate(ps, newest_first)

\* process_all, lines 60-73: the snapshot, or the exception of the sort
ProcessAll(ps, file) ==
    IF SortByOrderRaises(ps, file) # "none"
    THEN [op |-> "process_all", raised |-> SortByOrderRaises(ps, file),
          member_posts |-> <<>>, posts |-> <<>>, all_posts_sorted |-> <<>>]
    ELSE [op |-> "process_all", raised |-> "none",
          member_posts |-> SelectSeq(ps, LAMBDA p : p.is_members),
          posts |-> SelectSeq(ps, LAMBDA p : ~p.is_members),
          all_posts_sorted |-> SortPostsByOrder(ps, file, TRUE)]

\* a table that ranks C and A, with a gap, and leaves B out
GappedTable == <<Entry("C", 0), Entry("A", 2)>>

\* when_archived and estimated_date of a loaded post: a parsable archive time
\* (and the estimated date every archived post normally carries), or none
\* and any estimated date
DisplayShapes ==
    (({UtcStamp(t) : t \in 0..MaxTime} \cup {OffsetStamp(0)}) \X {Date(0)})
    \cup ({EmptyStamp, GarbageStamp} \X ({NoDate} \cup {Date(t) : t \in 0..MaxTime}))

InitDisplay ==
    /\ QueryIdle
    /\ phrase = NoPhrase
    /\ order_file \in {AbsentFile, UnparsableFile, TableFile(GappedTable), TableFile(PartialTable)}
    /\ \E ids \in DistinctIdLists :
          \E shapes \in [1..Len(ids) -> DisplayShapes] :
             posts = [i \in 1..Len(ids) |->
                         ShownPost(ids[i], shapes[i][1], shapes[i][2], ids[i] = "A")]

\* DataProcessor(output_dir).process_all(posts)
ProcessAllCall ==
    /\ view = NoView
    /\ view' = ProcessAll(posts, order_file)
    /\ UNCHANGED <<orderVars, runVars, filterVars, phrase>>

SpecDisplay == InitDisplay /\ [][ProcessAllCall]_vars

\* process_all returned a snapshot
SnapshotMade == view.op = "process_all" /\ view.raised = "none"

\* positions of a post in a list
PositionsIn(list, post) == {k \in 1..Len(list) : list[k] = post}

\* C22: for every post list process_all yields a snapshot whose member_posts
\* are exactly the posts flagged is_members, whose posts are the others, each
\* input post in exactly one of the two and once, and whose all_posts_sorted
\* is a permutation of the input, so that total_posts = member_only_count +
\* public_count, with or without an order table.
C22_SnapshotPartition ==
    view.op = "process_all" =>
        /\ view.raised = "none"
        /\ Range(view.member_posts) = {p \in Range(posts) : p.is_members}
        /\ Range(view.posts) = {p \in Range(posts) : ~p.is_members}
        /\ \A p \in Range(posts) :
              /\ Cardinality(PositionsIn(view.member_posts, p))
                    + Cardinality(PositionsIn(view.posts, p)) = 1
              /\ Cardinality(PositionsIn(view.all_posts_sorted, p)) = 1
        /\ Range(view.all_posts_sorted) = Range(posts)
        /\ Len(view.all_posts_sorted) = Len(view.member_posts) + Len(view.posts)

\* the sort took the table (non-empty mapping) or fell back to the timestamps
SortedByTable == SnapshotMade /\ LoadPostOrder(order_file) # EmptyDict
UsesFallback == ~LoadExistingRaises(order_file) /\ LoadPostOrder(order_file) = EmptyDict

\* input position of a post
InputIndex(post) == CHOOSE i \in 1..Len(posts) : posts[i] = post

DateGroup(post) ==
    IF HasUsableStamp(post) THEN 0 ELSE IF post.estimated_date.has THEN 1 ELSE 2

\* C26: without usable order table, the ordering is made, no post of a later
\* group precedes a post of an earlier group, and the posts with a parsable
\* archive timestamp run from the earliest timestamp to the latest.
C26_FallbackGroups ==
    view.op = "process_all" /\ UsesFallback =>
        /\ view.raised = "none"
        /\ LET r == view.all_posts_sorted
           IN \A i, j \in 1..Len(r) : i < j =>
                 /\ DateGroup(r[i]) <= DateGroup(r[j])
                 /\ DateGroup(r[i]) = 0 /\ DateGroup(r[j]) = 0
                       => ParseArchived(r[i].when_archived).t
                             <= ParseArchived(r[j].when_archived).t

\* C27: in the fallback ordering, of two posts of the estimated-date group
\* the one with the later estimated date comes before the one with the
\* earlier estimated date.
C27_EstimatedNewestFirst ==
    SnapshotMade /\ UsesFallback =>
        LET r == view.all_posts_sorted
        IN \A i, j \in 1..Len(r) :
              /\ DateGroup(r[i]) = 1 /\ DateGroup(r[j]) = 1
              /\ r[i].estimated_date.t > r[j].estimated_date.t
              => i < j

\* ---------------------------------------------------- merged rank spaces
\* C24: with a non-empty fresh order, in the table _update_post_order writes
\* every current post named in the fresh order ranks before every retained
\* post not named in it, for any previous ranks and any input order (posts of
\* distinct ids).
C24_FreshBeforeRetained ==
    (/\ Returned
     /\ HasFresh(pre_fetched_order)
     /\ IsInjective([i \in 1..Len(posts) |-> posts[i].post_id])) =>
        \A id \in FreshIds \cap CurrentIds, other \in RetainedIds :
            RanksBefore(id, other)

\* ----------------------------------------------------- parse_relative_date
\* a phrase after lower().strip(): the number its first digits denote (-1
\* when it has no digit) and the words that follow
\* datetime.now(), line 25: days since 0001-01-01 (datetime.min) and seconds
\* of the day; here 2026-11-04 12:00:00
Now == [days |-> 2025 * 365 + 491 + 307, secs |-> 12 * 3600]

\* lines 28-36: the patterns, in the order they are tried
Units == <<"second", "minute", "hour", "day", "week", "month", "year">>

\* re.search("(\d+)\s*<unit>", phrase): digits directly followed by the unit
PatternMatches(unit, ph) ==
    /\ ph.count >= 0
    /\ ph.words # <<>>
    /\ ph.words[1] \in {unit, unit \o "s"}

\* "<words>" in phrase
Contains(ph, sub) ==
    \E k \in 0..(Len(ph.words) - Len(sub)) :
        \A i \in 1..Len(sub) : ph.words[k + i] = sub[i]

\* lines 43-58: the timedelta of value units
Delta(unit, value) ==
    CASE unit = "second" -> [days |-> 0, secs |-> value]
      [] unit = "minute" -> [days |-> 0, secs |-> value * 60]
      [] unit = "hour" -> [days |-> 0, secs |-> value * 3600]
      [] unit = "day" -> [days |-> value, secs |-> 0]
      [] unit = "week" -> [days |-> value * 7, secs |-> 0]
      [] unit = "month" -> [days |-> value * 30, secs |-> 0]
      [] unit = "year" -> [days |-> value * 365, secs |-> 0]

\* days and seconds with the seconds brought into 0..86399
Normalized(days, secs) == [days |-> days + (secs \div 86400), secs |-> secs % 86400]

\* datetime - timedelta: OverflowError for a result before datetime.min
Minus(t, delta) ==
    LET r == Normalized(t.days - delta.days, t.secs - delta.secs)
    IN IF r.days < 0 THEN [kind |-> "raised", exc |-> "OverflowError"]
       ELSE [kind |-> "datetime", days |-> r.days, secs |-> r.secs]

\* parse_relative_date, lines 22-68
ParseRelativeDate(ph, now) ==
    LET matching == {k \in 1..Len(Units) : PatternMatches(Units[k], ph)}
        first == CHOOSE k \in matching : \A j \in matching : k <= j
    IN CASE ph.count < 0 /\ ph.words = <<>> -> [kind |-> "none"]
         [] ph.words # <<>> /\ matching # {} -> Minus(now, Delta(Units[first], ph.count))
         [] ph.words # <<>> /\ matching = {}
               /\ (Contains(ph, <<"just", "now">>) \/ Contains(ph, <<"moments", "ago">>))
               -> Minus(now, [days |-> 0, secs |-> 0])
         [] ph.words # <<>> /\ matching = {}
               /\ ~(Contains(ph, <<"just", "now">>) \/ Contains(ph, <<"moments", "ago">>))
               /\ Contains(ph, <<"yesterday">>)
               -> Minus(now, [days |-> 1, secs |-> 0])
         [] OTHER -> [kind |-> "none"]

\* "<n> <unit>s ago" for every unit and for a word that is no unit, and the
\* phrases without number
Phrases ==
    {[count |-> n, words |-> <<w, "ago">>] :
        n \in 0..MaxCount,
        w \in {Units[k] \o "s" : k \in 1..Len(Units)} \cup {"year", "fortnights"}}
    \cup {[count |-> -1, words |-> ws] :
            ws \in {<<>>, <<"just", "now">>, <<"moments", "ago">>, <<"yesterday">>,
                    <<"a", "year", "ago">>, <<"last", "tuesday">>}}

InitParse ==
    /\ QueryIdle
    /\ posts = <<>>
    /\ order_file = AbsentFile
    /\ phrase \in Phrases

\* parse_relative_date(phrase)
ParseCall ==
    /\ view = NoView
    /\ view' = [op |-> "parse_relative_date", result |-> ParseRelativeDate(phrase, Now)]
    /\ UNCHANGED <<orderVars, runVars, filterVars, phrase>>

SpecParse == InitParse /\ [][ParseCall]_vars

\* the phrase is a number followed by the unit (singular or plural) and "ago"
IsUnitPhrase(unit) ==
    /\ phrase.count >= 0
    /\ phrase.words \in {<<unit, "ago">>, <<unit \o "s", "ago">>}

\* the result is the datetime that lies days and secs before now
IsNowMinus(days, secs) ==
    /\ view.result.kind = "datetime"
    /\ Normalized(view.result.days + days, view.result.secs + secs) = Now

\* C23: for a number n followed by one supported unit the result is now minus
\* n of the unit, a month being 30 days and a year 365; "just now" and
\* "moments ago" give now, "yesterday" gives now minus one day, and every
\* other phrase, the empty one included, gives None.
C23_ParseRelativeDate ==
    view.op = "parse_relative_date" =>
        LET n == phrase.count
        IN /\ IsUnitPhrase("second") => IsNowMinus(0, n)
           /\ IsUnitPhrase("minute") => IsNowMinus(0, n * 60)
           /\ IsUnitPhrase("hour") => IsNowMinus(0, n * 3600)
           /\ IsUnitPhrase("day") => IsNowMinus(n, 0)
           /\ IsUnitPhrase("week") => IsNowMinus(n * 7, 0)
           /\ IsUnitPhrase("month") => IsNowMinus(n * 30, 0)
           /\ IsUnitPhrase("year") => IsNowMinus(n * 365, 0)
           /\ phrase.words \in {<<"just", "now">>, <<"moments", "ago">>} => IsNowMinus(0, 0)
           /\ phrase.words = <<"yesterday">> => IsNowMinus(1, 0)
           /\ (/\ \A k \in 1..Len(Units) : ~IsUnitPhrase(Units[k])
               /\ phrase.words \notin {<<"just", "now">>, <<"moments", "ago">>, <<"yesterday">>})
                 => view.result = [kind |-> "none"]

\* ------------------------------------------------------------ feed order
\* archive_channel archives the membership feed in this run
MembershipWanted == config.include_members /\ config.credentials

\* C29: in every archive_channel run the regular feed is archived first, by
\* one _run_archiver call, and the membership feed after it if and only if
\* include_members is set and a profile or cookies file is configured.
C29_RegularThenMembership ==
    /\ [](/\ pc = "membership" => MembershipWanted /\ attempts.call \in {"regular", "membership"}
          /\ attempts.call = "membership" => MembershipWanted
          /\ pc = "finish" =>
                attempts.call = IF MembershipWanted THEN "membership" ELSE "regular")
    /\ [][/\ (attempts'.call = "regular" /\ attempts.call # "regular")
                => pc = "regular" /\ attempts = NoAttempts
          /\ (attempts'.call = "membership" /\ attempts.call # "membership")
                => pc = "membership" /\ attempts.call = "regular"]_vars
    /\ (pc = "regular") ~> (pc = "finish")

\* both feeds were archived, the membership feed last
C29_Witness ==
    /\ pc = "finish"
    /\ attempts.call = "membership"
    /\ MembershipWanted

\* ------------------------------------------------------- generate-only runs
\* C30: a generate-only run starts no archiver process and no fresh-order
\* fetch and leaves every post record and the order table as they are,
\* whatever the archive holds.
C30_GenerateOnlyReadOnly ==
    [][StartGenerateOnly =>
          /\ attempts' = NoAttempts
          /\ pre_fetched_order' = pre_fetched_order
          /\ disk' = disk
          /\ order_file' = order_file
          /\ existing_member_ids' = {}
          /\ runs' = runs]_vars

\* a generate-only run on an archive that an archiving run left with an order
\* table and with a public and a member-only record of the same post
C30_Witness ==
    /\ LoadDone
    /\ pc = "processing"
    /\ order_file.kind = "table"
    /\ disk["B"] = Record(FALSE)
    /\ disk["old/B"] = Record(TRUE)

====
